---- MODULE Spec2Model ----
(***************************************************************************)
(* Model of the hotwheels-id.js main module (src/unnamed/part_000): the     *)
(* camera render loop, the throttled OCR pipeline, the catalog matcher and  *)
(* the cover-crop geometry.                                                 *)
(*                                                                          *)
(* Text is a sequence of one-character strings.  An optional value          *)
(* (null / undefined in the source) is the empty sequence, a present value  *)
(* v is <<v>>.                                                              *)
(***************************************************************************)
EXTENDS Integers, Sequences, FiniteSets, TLC

VARIABLES
    now,            \* performance.now()
    pc,             \* position of the module's top-level startup code
    options,        \* the <option> values of the camera select
    selectValue,    \* select.value
    capture,        \* let capture: the track id of the held ImageCapture
    liveTracks,     \* camera tracks opened and not stopped
    opened,         \* number of camera tracks opened so far
    pendingInit,    \* startSelectedDevice calls awaiting initCapture
    worker,         \* let worker
    lastOcrTime,    \* let lastOcrTime
    hotwheelsData,  \* let hotwheelsData
    currentEntry,   \* let currentEntry
    table,          \* the entry shown in the toy table cells
    loopPc,         \* position of the render loop
    inflight,       \* worker.recognize calls not yet settled
    guide,          \* style of the helper box at the last draw
    canvas,         \* outputCanvas: <<width, height>>
    drawn,          \* arguments of the last ctx.drawImage call
    tesseractCanvas,\* tesseractCanvas: <<width, height>>
    ocrDrawn,       \* source rectangle of the last tctx.drawImage call
    ev              \* the step just taken (and the OCR text it delivered)

vars == <<now, pc, options, selectValue, capture, liveTracks, opened,
          pendingInit, worker, lastOcrTime, hotwheelsData, currentEntry,
          table, loopPc, inflight, guide, canvas, drawn, tesseractCanvas,
          ocrDrawn, ev>>

cameraVars == <<options, selectValue, capture, liveTracks, opened, pendingInit>>
ocrVars == <<lastOcrTime, currentEntry, table, inflight>>
canvasVars == <<canvas, drawn, tesseractCanvas, ocrDrawn, guide>>

(***************************************************************************)
(* Bounds of the model                                                     *)
(***************************************************************************)
MaxTime == 2250
TickStep == 250
MaxTracks == 3

(***************************************************************************)
(* Program constants                                                       *)
(***************************************************************************)
GUIDE_WIDTH == 100
GUIDE_HEIGHT == 40
OCR_INTERVAL == 750
MinSeg == 3
MaxSeg == 5

Null == <<>>
Some(v) == <<v>>

Upper == {"A","B","C","D","E","F","G","H","I","J","K","L","M",
          "N","O","P","Q","R","S","T","U","V","W","X","Y","Z"}
Digit == {"0","1","2","3","4","5","6","7","8","9"}
CodeChar == Upper \cup Digit
WhiteSpace == {" ", "\n", "\t"}

(***************************************************************************)
(* Catalog matcher: data.text.trim(), CODE_REGEX.test, split('-')[0],      *)
(* hotwheelsData.find(e => prefix.startsWith(e.Number))                    *)
(***************************************************************************)
RECURSIVE TrimStart(_)
TrimStart(s) ==
    IF s # <<>> /\ Head(s) \in WhiteSpace THEN TrimStart(Tail(s)) ELSE s

RECURSIVE TrimEnd(_)
TrimEnd(s) ==
    IF s # <<>> /\ s[Len(s)] \in WhiteSpace
    THEN TrimEnd(SubSeq(s, 1, Len(s) - 1)) ELSE s

Trim(s) == TrimEnd(TrimStart(s))

\* CODE_REGEX without the upper limit of a segment: {3,} for {3,5}
CODE_REGEX_NoUpperLimit(s) ==
    \E n \in MinSeg..Len(s), m \in MinSeg..Len(s) :
        /\ Len(s) = n + 1 + m
        /\ \A i \in 1..n : s[i] \in CodeChar
        /\ s[n + 1] = "-"
        /\ \A i \in (n + 2)..(n + 1 + m) : s[i] \in CodeChar

\* /^[A-Z0-9]{3,5}-[A-Z0-9]{3,5}$/.test(s)
CODE_REGEX(s) ==
    \E n \in MinSeg..MaxSeg, m \in MinSeg..MaxSeg :
        /\ Len(s) = n + 1 + m
        /\ \A i \in 1..n : s[i] \in CodeChar
        /\ s[n + 1] = "-"
        /\ \A i \in (n + 2)..(n + 1 + m) : s[i] \in CodeChar

\* s.split('-')[0]
RECURSIVE SplitHead(_)
SplitHead(s) ==
    IF s = <<>> \/ Head(s) = "-" THEN <<>>
    ELSE <<Head(s)>> \o SplitHead(Tail(s))

\* p.startsWith(q)
StartsWith(p, q) == Len(q) <= Len(p) /\ SubSeq(p, 1, Len(q)) = q

FindPred(e, prefix) == StartsWith(prefix, e.Number)

\* find returning the last entry that matches instead of the first
RECURSIVE Find_Last(_, _)
Find_Last(data, prefix) ==
    IF data = <<>> THEN Null
    ELSE IF FindPred(data[Len(data)], prefix) THEN Some(data[Len(data)])
    ELSE Find_Last(SubSeq(data, 1, Len(data) - 1), prefix)

\* data.find(e => prefix.startsWith(e.Number)), undefined as Null
RECURSIVE Find(_, _)
Find(data, prefix) ==
    IF data = <<>> THEN Null
    ELSE IF FindPred(Head(data), prefix) THEN Some(Head(data))
    ELSE Find(Tail(data), prefix)

\* IsNewMatch without the comparison of Numbers
IsNewMatch_NoDebounce(match, cur) == match # Null

\* match && match.Number !== currentEntry?.Number
IsNewMatch(match, cur) ==
    match # Null /\ (cur = Null \/ match[1].Number # cur[1].Number)

\* OnRecognized clearing the entry when the text is not a code
OnRecognized_ClearsOnReject(rawText, data, cur, tbl) ==
    LET text == Trim(rawText) IN
    IF ~CODE_REGEX(text)
    THEN [op |-> "OcrRejected", entry |-> Null, shown |-> tbl]
    ELSE LET match == Find(data, SplitHead(text)) IN
         IF IsNewMatch(match, cur)
         THEN [op |-> "OcrUpdated", entry |-> match, shown |-> match]
         ELSE [op |-> "OcrNoChange", entry |-> cur, shown |-> tbl]

\* The body of the try block of maybeRunOCR once recognize has resolved with
\* rawText: the outcome and the values of currentEntry and of the table.
OnRecognized(rawText, data, cur, tbl) ==
    LET text == Trim(rawText) IN
    IF ~CODE_REGEX(text)
    THEN [op |-> "OcrRejected", entry |-> cur, shown |-> tbl]
    ELSE LET match == Find(data, SplitHead(text)) IN
         IF IsNewMatch(match, cur)
         THEN [op |-> "OcrUpdated", entry |-> match, shown |-> match]
         ELSE [op |-> "OcrNoChange", entry |-> cur, shown |-> tbl]

(***************************************************************************)
(* Numbers of the geometry code: exact rationals <<numerator, denominator>> *)
(* with a positive denominator, in lowest terms.  A division by zero gives *)
(* the non-finite numbers of JavaScript, written with a zero denominator:  *)
(* Infinity is <<1, 0>>, -Infinity is <<-1, 0>> and NaN is <<0, 0>>.  The   *)
(* sign of a zero is not kept.                                             *)
(***************************************************************************)
Abs(n) == IF n < 0 THEN 0 - n ELSE n

RECURSIVE GCD(_, _)
GCD(a, b) == IF b = 0 THEN a ELSE GCD(b, a % b)

NaN == <<0, 0>>

Norm(n, d) ==
    IF d = 0
    THEN <<IF n > 0 THEN 1 ELSE IF n < 0 THEN 0 - 1 ELSE 0, 0>>
    ELSE LET g == GCD(Abs(n), Abs(d))
             k == IF d < 0 THEN 0 - g ELSE g
         IN <<n \div k, d \div k>>

Num(n) == <<n, 1>>
Neg(a) == <<0 - a[1], a[2]>>
\* 1 / a; 1 / 0 is Infinity
Inv(a) == IF a[1] < 0 THEN <<0 - a[2], 0 - a[1]>> ELSE <<a[2], a[1]>>
Add(a, b) ==
    IF a[2] = 0 /\ b[2] = 0
    THEN IF a = b THEN a ELSE NaN
    ELSE Norm(a[1] * b[2] + b[1] * a[2], a[2] * b[2])
Sub(a, b) == Add(a, Neg(b))
Mul(a, b) == Norm(a[1] * b[1], a[2] * b[2])
Div(a, b) == Mul(a, Inv(b))
\* a comparison with NaN is false
Less(a, b) ==
    IF a[2] = 0 /\ b[2] = 0
    THEN a[1] # 0 /\ b[1] # 0 /\ a[1] < b[1]
    ELSE a[1] * b[2] < b[1] * a[2]
LessEq(a, b) == Less(a, b) \/ (a = b /\ a # NaN)

\* conversion of a size to the unsigned long of canvas.width: a non-finite
\* number gives 0, a finite one is truncated (the sizes are never negative
\* and stay far below 2^32)
ToUnsignedLong(a) == IF a[2] = 0 THEN 0 ELSE a[1] \div a[2]

(***************************************************************************)
(* Geometry (lines 251-297)                                                *)
(***************************************************************************)
\* computeCoverCrop with the comparison of the ratios reversed (a "contain"
\* fit)
computeCoverCrop_Contain(srcW, srcH, dstW, dstH) ==
    LET srcRatio == Div(srcW, srcH)
        dstRatio == Div(dstW, dstH)
    IN IF Less(srcRatio, dstRatio)
       THEN LET sh == srcH
                sw == Mul(sh, dstRatio)
            IN [sx |-> Div(Sub(srcW, sw), Num(2)), sy |-> Num(0),
                sw |-> sw, sh |-> sh]
       ELSE LET sw == srcW
                sh == Div(sw, dstRatio)
            IN [sx |-> Num(0), sy |-> Div(Sub(srcH, sh), Num(2)),
                sw |-> sw, sh |-> sh]

\* computeCoverCrop aligning the crop to the far edge instead of centring it
computeCoverCrop_NoCentre(srcW, srcH, dstW, dstH) ==
    LET srcRatio == Div(srcW, srcH)
        dstRatio == Div(dstW, dstH)
    IN IF Less(dstRatio, srcRatio)
       THEN LET sh == srcH
                sw == Mul(sh, dstRatio)
            IN [sx |-> Sub(srcW, sw), sy |-> Num(0), sw |-> sw, sh |-> sh]
       ELSE LET sw == srcW
                sh == Div(sw, dstRatio)
            IN [sx |-> Num(0), sy |-> Sub(srcH, sh), sw |-> sw, sh |-> sh]

computeCoverCrop(srcW, srcH, dstW, dstH) ==
    LET srcRatio == Div(srcW, srcH)
        dstRatio == Div(dstW, dstH)
    IN IF Less(dstRatio, srcRatio)
       THEN LET sh == srcH
                sw == Mul(sh, dstRatio)
            IN [sx |-> Div(Sub(srcW, sw), Num(2)), sy |-> Num(0),
                sw |-> sw, sh |-> sh]
       ELSE LET sw == srcW
                sh == Div(sw, dstRatio)
            IN [sx |-> Num(0), sy |-> Div(Sub(srcH, sh), Num(2)),
                sw |-> sw, sh |-> sh]

\* computeOCRCrop scaling by the whole frame instead of the display crop
computeOCRCrop_FrameScale(frame, cv) ==
    LET displayCrop == computeCoverCrop(Num(frame[1]), Num(frame[2]),
                                        Num(cv[1]), Num(cv[2]))
        scaleX == Div(Num(frame[1]), Num(cv[1]))
        scaleY == Div(Num(frame[2]), Num(cv[2]))
        boxX == Div(Sub(Num(cv[1]), Num(GUIDE_WIDTH)), Num(2))
        boxY == Div(Sub(Num(cv[2]), Num(GUIDE_HEIGHT)), Num(2))
    IN [sx |-> Add(displayCrop.sx, Mul(boxX, scaleX)),
        sy |-> Add(displayCrop.sy, Mul(boxY, scaleY)),
        sw |-> Mul(Num(GUIDE_WIDTH), scaleX),
        sh |-> Mul(Num(GUIDE_HEIGHT), scaleY)]

\* frame and cv are <<width, height>>
computeOCRCrop(frame, cv) ==
    LET displayCrop == computeCoverCrop(Num(frame[1]), Num(frame[2]),
                                        Num(cv[1]), Num(cv[2]))
        scaleX == Div(displayCrop.sw, Num(cv[1]))
        scaleY == Div(displayCrop.sh, Num(cv[2]))
        boxX == Div(Sub(Num(cv[1]), Num(GUIDE_WIDTH)), Num(2))
        boxY == Div(Sub(Num(cv[2]), Num(GUIDE_HEIGHT)), Num(2))
    IN [sx |-> Add(displayCrop.sx, Mul(boxX, scaleX)),
        sy |-> Add(displayCrop.sy, Mul(boxY, scaleY)),
        sw |-> Mul(Num(GUIDE_WIDTH), scaleX),
        sh |-> Mul(Num(GUIDE_HEIGHT), scaleY)]

\* drawFrame: the arguments of ctx.drawImage
drawFrame(frame, cv) ==
    [width |-> frame[1], height |-> frame[2],
     crop |-> computeCoverCrop(Num(frame[1]), Num(frame[2]),
                               Num(cv[1]), Num(cv[2]))]

(***************************************************************************)
(* Inputs of the orchestrator model                                        *)
(***************************************************************************)
Entry(num, name) == [Number |-> num, Name |-> name, Year |-> "2020", Color |-> "Red"]

EA == Entry(<<"A","B","1">>, "a")
EB == Entry(<<"A","B","1","2">>, "b")
EX == Entry(<<"X","Y","9">>, "x")

LoadedCatalogs == { <<EA, EB, EX>>, <<EB, EX>> }

OcrTexts ==
    { <<"A","B","1","2","-","X","Y","9","9","\n">>,
      <<"A","B","1","-","7","7","7">>,
      <<" ","X","Y","9","Z","-","1","2","3">>,
      <<"Z","Z","Z","-","9","9","9">>,
      <<"a","b","1","2","-","x","y","9","9">>,
      <<>> }

CameraLists == { <<>>, <<"cam1", "cam2">> }

\* the canvases of the page (the default size of a canvas element)
HtmlCanvas == <<300, 150>>
DefaultCanvas == <<300, 150>>

\* sizes of the frames the cameras deliver
CameraFrames == { <<640, 480>>, <<1280, 360>> }

Event(op) == [op |-> op, text |-> <<>>]

(***************************************************************************)
(* Initial state: the module's declarations (lines 29-42), before line 46  *)
(***************************************************************************)
Init ==
    /\ now = 0
    /\ pc = "loadHotWheelsData"
    /\ options = <<>>
    /\ selectValue = ""
    /\ capture = Null
    /\ liveTracks = {}
    /\ opened = 0
    /\ pendingInit = 0
    /\ worker = Null
    /\ lastOcrTime = 0
    /\ hotwheelsData = <<>>
    /\ currentEntry = Null
    /\ table = Null
    /\ loopPc = "notStarted"
    /\ inflight = 0
    /\ guide = "none"
    /\ canvas = HtmlCanvas
    /\ drawn = Null
    /\ tesseractCanvas = DefaultCanvas
    /\ ocrDrawn = Null
    /\ ev = Event("Init")

(***************************************************************************)
(* The clock                                                               *)
(***************************************************************************)
Tick ==
    /\ now + TickStep <= MaxTime
    /\ now' = now + TickStep
    /\ ev' = Event("Tick")
    /\ UNCHANGED <<pc, cameraVars, worker, ocrVars, hotwheelsData, loopPc,
                   canvasVars>>

(***************************************************************************)
(* Startup (lines 46-53)                                                   *)
(***************************************************************************)
\* await loadHotWheelsData(), with ensurePermission before it
LoadHotWheelsData(cat) ==
    /\ pc = "loadHotWheelsData"
    /\ hotwheelsData' = cat
    /\ pc' = "populateVideoSources"
    /\ ev' = Event("LoadHotWheelsData")
    /\ UNCHANGED <<now, cameraVars, worker, ocrVars, loopPc, canvasVars>>

\* a rejected top-level await ends the module: nothing later runs
StartupFailed ==
    /\ pc \in {"loadHotWheelsData", "populateVideoSources", "initCapture",
               "initTesseract"}
    /\ pc' = "failed"
    /\ ev' = Event("StartupFailed")
    /\ UNCHANGED <<now, cameraVars, worker, ocrVars, hotwheelsData, loopPc,
                   canvasVars>>

PopulateVideoSources(cams) ==
    /\ pc = "populateVideoSources"
    /\ options' = cams
    /\ selectValue' = IF cams = <<>> THEN "" ELSE cams[1]
    /\ pc' = "startSelectedDevice"
    /\ ev' = Event("PopulateVideoSources")
    /\ UNCHANGED <<now, capture, liveTracks, opened, pendingInit, worker,
                   ocrVars, hotwheelsData, loopPc, canvasVars>>

\* stopCapture(): the live tracks after it
stopCapture == IF capture = Null THEN liveTracks ELSE liveTracks \ {capture[1]}

\* line 49, up to the await of initCapture
StartupSelectedDevice ==
    /\ pc = "startSelectedDevice"
    /\ liveTracks' = stopCapture
    /\ capture' = Null
    /\ pc' = IF selectValue = "" THEN "initTesseract" ELSE "initCapture"
    /\ ev' = Event("StartupSelectedDevice")
    /\ UNCHANGED <<now, options, selectValue, opened, pendingInit, worker,
                   ocrVars, hotwheelsData, loopPc, canvasVars>>

\* initCapture resolves during startup: capture = new ImageCapture(track)
StartupCaptureReady ==
    /\ pc = "initCapture"
    /\ opened' = opened + 1
    /\ liveTracks' = liveTracks \cup {opened + 1}
    /\ capture' = Some(opened + 1)
    /\ pc' = "initTesseract"
    /\ ev' = Event("StartupCaptureReady")
    /\ UNCHANGED <<now, options, selectValue, pendingInit, worker, ocrVars,
                   hotwheelsData, loopPc, canvasVars>>

InitTesseract ==
    /\ pc = "initTesseract"
    /\ worker' = Some("worker")
    /\ pc' = "startRenderLoop"
    /\ ev' = Event("InitTesseract")
    /\ UNCHANGED <<now, cameraVars, ocrVars, hotwheelsData, loopPc, canvasVars>>

\* the first part of loop(): if (capture) await capture.grabFrame(), else
\* requestAnimationFrame(loop)
LoopEntry == IF capture # Null THEN "grabFrame" ELSE "requestAnimationFrame"

\* startRenderLoop() runs loop() up to its first await, then line 53
\* registers the change listener
StartRenderLoop ==
    /\ pc = "startRenderLoop"
    /\ loopPc' = LoopEntry
    /\ pc' = "running"
    /\ ev' = Event("StartRenderLoop")
    /\ UNCHANGED <<now, cameraVars, worker, ocrVars, hotwheelsData, canvasVars>>

(***************************************************************************)
(* Camera selection (lines 53, 84-102)                                     *)
(***************************************************************************)
\* the change event: startSelectedDevice up to its await
DeviceChange(d) ==
    /\ pc = "running"
    /\ d # selectValue
    /\ opened + pendingInit < MaxTracks
    /\ selectValue' = d
    /\ liveTracks' = stopCapture
    /\ capture' = Null
    /\ pendingInit' = pendingInit + 1
    /\ ev' = Event("DeviceChange")
    /\ UNCHANGED <<now, pc, options, opened, worker, ocrVars, hotwheelsData,
                   loopPc, canvasVars>>

\* a pending initCapture resolves: capture = the new ImageCapture
CaptureReady ==
    /\ pendingInit > 0
    /\ pendingInit' = pendingInit - 1
    /\ opened' = opened + 1
    /\ liveTracks' = liveTracks \cup {opened + 1}
    /\ capture' = Some(opened + 1)
    /\ ev' = Event("CaptureReady")
    /\ UNCHANGED <<now, pc, options, selectValue, worker, ocrVars,
                   hotwheelsData, loopPc, canvasVars>>

\* a pending initCapture rejects: capture stays null
CaptureFailed ==
    /\ pendingInit > 0
    /\ pendingInit' = pendingInit - 1
    /\ ev' = Event("CaptureFailed")
    /\ UNCHANGED <<now, pc, options, selectValue, capture, liveTracks, opened,
                   worker, ocrVars, hotwheelsData, loopPc, canvasVars>>

(***************************************************************************)
(* Render loop (lines 131-145) and the synchronous part of maybeRunOCR     *)
(***************************************************************************)
\* requestAnimationFrame fires loop(): capture is null, next frame requested
LoopNoCapture ==
    /\ loopPc = "requestAnimationFrame"
    /\ capture = Null
    /\ ev' = Event("LoopNoCapture")
    /\ UNCHANGED <<now, pc, cameraVars, worker, ocrVars, hotwheelsData,
                   loopPc, canvasVars>>

\* LoopGrabFrame not waiting for the previous cycle: a new cycle starts while
\* a grabFrame is still awaited
LoopGrabFrame_Overlapping ==
    /\ loopPc \in {"requestAnimationFrame", "grabFrame"}
    /\ capture # Null
    /\ loopPc' = "grabFrame"
    /\ ev' = Event("LoopGrabFrame")
    /\ UNCHANGED <<now, pc, cameraVars, worker, ocrVars, hotwheelsData,
                   canvasVars>>

\* requestAnimationFrame fires loop(): capture.grabFrame() is awaited
LoopGrabFrame ==
    /\ loopPc = "requestAnimationFrame"
    /\ capture # Null
    /\ loopPc' = "grabFrame"
    /\ ev' = Event("LoopGrabFrame")
    /\ UNCHANGED <<now, pc, cameraVars, worker, ocrVars, hotwheelsData,
                   canvasVars>>

\* drawHelperBox with the two styles exchanged
drawHelperBox_Swapped == IF currentEntry # Null THEN "yellow" ELSE "lime"

\* drawHelperBox: the style chosen from currentEntry
drawHelperBox == IF currentEntry # Null THEN "lime" ELSE "yellow"

\* shouldRun without the interval: every frame is recognized
shouldRun_NoInterval(t, last) == ~(t - last < 0)

\* shouldRun with a strict comparison: an attempt exactly one interval after
\* the last one is gated
shouldRun_Strict(t, last) == ~(t - last <= OCR_INTERVAL)

\* shouldRun with the test reversed: an attempt runs only while the interval
\* has not elapsed
shouldRun_Reversed(t, last) == t - last < OCR_INTERVAL

\* now - lastOcrTime < OCR_INTERVAL is false
shouldRun(t, last) == ~(t - last < OCR_INTERVAL)

\* FrameGrabbed with "await maybeRunOCR(frame)": the loop requests the next
\* frame only once the recognition has settled
FrameGrabbed_AwaitsOCR(frame) ==
    /\ loopPc = "grabFrame"
    /\ drawn' = Some(drawFrame(frame, canvas))
    /\ guide' = IF currentEntry # Null THEN "lime" ELSE "yellow"
    /\ IF worker # Null /\ ~(now - lastOcrTime < OCR_INTERVAL)
       THEN /\ lastOcrTime' = now
            /\ tesseractCanvas' =
                   <<ToUnsignedLong(computeOCRCrop(frame, canvas).sw),
                     ToUnsignedLong(computeOCRCrop(frame, canvas).sh)>>
            /\ ocrDrawn' = Some(computeOCRCrop(frame, canvas))
            /\ ev' = Event("RecognitionRan")
            /\ inflight' = inflight + 1
            /\ loopPc' = "awaitRecognize"
       ELSE /\ ev' = Event("RecognitionGated")
            /\ loopPc' = "requestAnimationFrame"
            /\ UNCHANGED <<lastOcrTime, inflight, tesseractCanvas, ocrDrawn>>
    /\ UNCHANGED <<now, pc, cameraVars, worker, hotwheelsData, currentEntry,
                   table, canvas>>

\* grabFrame resolves: drawFrame(frame); maybeRunOCR(frame) up to its await;
\* requestAnimationFrame(loop).  preprocessOCR throws when the tesseract
\* canvas has no pixels (getImageData of an empty rectangle), which rejects
\* the promise of maybeRunOCR before recognize is called.
FrameGrabbed(frame) ==
    /\ loopPc = "grabFrame"
    /\ drawn' = Some(drawFrame(frame, canvas))
    /\ guide' = drawHelperBox
    /\ IF worker = Null
       THEN /\ ev' = Event("NoWorker")
            /\ UNCHANGED <<lastOcrTime, inflight, tesseractCanvas, ocrDrawn>>
       ELSE IF shouldRun(now, lastOcrTime)
       THEN LET crop == computeOCRCrop(frame, canvas)
                w == ToUnsignedLong(crop.sw)
                h == ToUnsignedLong(crop.sh)
            IN /\ lastOcrTime' = now
               /\ tesseractCanvas' = <<w, h>>
               /\ ocrDrawn' = Some(crop)
               /\ IF w = 0 \/ h = 0
                  THEN /\ ev' = Event("PreprocessFailed")
                       /\ UNCHANGED inflight
                  ELSE /\ ev' = Event("RecognitionRan")
                       /\ inflight' = inflight + 1
       ELSE /\ ev' = Event("RecognitionGated")
            /\ UNCHANGED <<lastOcrTime, inflight, tesseractCanvas, ocrDrawn>>
    /\ loopPc' = "requestAnimationFrame"
    /\ UNCHANGED <<now, pc, cameraVars, worker, hotwheelsData, currentEntry,
                   table, canvas>>

\* FrameFailed with requestAnimationFrame inside the try: a failed grab ends
\* the loop
FrameFailed_StopsLoop ==
    /\ loopPc = "grabFrame"
    /\ loopPc' = "stopped"
    /\ ev' = Event("FrameFailed")
    /\ UNCHANGED <<now, pc, cameraVars, worker, ocrVars, hotwheelsData,
                   canvasVars>>

\* grabFrame rejects: the catch logs, requestAnimationFrame(loop)
FrameFailed ==
    /\ loopPc = "grabFrame"
    /\ loopPc' = "requestAnimationFrame"
    /\ ev' = Event("FrameFailed")
    /\ UNCHANGED <<now, pc, cameraVars, worker, ocrVars, hotwheelsData,
                   canvasVars>>

(***************************************************************************)
(* Completion of worker.recognize (lines 207-224)                          *)
(***************************************************************************)
OcrResolved(rawText) ==
    /\ inflight > 0
    /\ inflight' = inflight - 1
    /\ LET r == OnRecognized(rawText, hotwheelsData, currentEntry, table) IN
         /\ currentEntry' = r.entry
         /\ table' = r.shown
         /\ ev' = [op |-> r.op, text |-> rawText]
    /\ UNCHANGED <<now, pc, cameraVars, worker, lastOcrTime, hotwheelsData,
                   loopPc, canvasVars>>

\* OcrFailed clearing the entry in the catch
OcrFailed_ClearsEntry ==
    /\ inflight > 0
    /\ inflight' = inflight - 1
    /\ currentEntry' = Null
    /\ ev' = Event("OcrFailed")
    /\ UNCHANGED <<now, pc, cameraVars, worker, lastOcrTime, table,
                   hotwheelsData, loopPc, canvasVars>>

\* worker.recognize rejects: the catch logs
OcrFailed ==
    /\ inflight > 0
    /\ inflight' = inflight - 1
    /\ ev' = Event("OcrFailed")
    /\ UNCHANGED <<now, pc, cameraVars, worker, lastOcrTime, currentEntry,
                   table, hotwheelsData, loopPc, canvasVars>>

Next ==
    \/ Tick
    \/ \E cat \in LoadedCatalogs : LoadHotWheelsData(cat)
    \/ StartupFailed
    \/ \E cams \in CameraLists : PopulateVideoSources(cams)
    \/ StartupSelectedDevice
    \/ StartupCaptureReady
    \/ InitTesseract
    \/ StartRenderLoop
    \/ \E i \in 1..Len(options) : DeviceChange(options[i])
    \/ CaptureReady
    \/ CaptureFailed
    \/ LoopNoCapture
    \/ LoopGrabFrame
    \/ \E f \in CameraFrames : FrameGrabbed(f)
    \/ FrameFailed
    \/ \E t \in OcrTexts : OcrResolved(t)
    \/ OcrFailed

Spec == Init /\ [][Next]_vars

(***************************************************************************)
(* Properties of the orchestrator                                          *)
(***************************************************************************)
EntriesOf(data) == { data[i] : i \in 1..Len(data) }

\* the steps in which a grabbed frame was displayed
FrameOps == {"RecognitionRan", "RecognitionGated", "NoWorker", "PreprocessFailed"}

\* the steps in which worker.recognize resolved
OcrDoneOps == {"OcrRejected", "OcrUpdated", "OcrNoChange"}

LoopRunning == {"requestAnimationFrame", "grabFrame"}

\* the catalog entry a recognized text stands for, Null when there is none
Resolve(rawText, data) ==
    IF CODE_REGEX(Trim(rawText)) THEN Find(data, SplitHead(Trim(rawText)))
    ELSE Null

\* C1: lastOcrTime changes only by being set to the current time, which is
\* then at least OCR_INTERVAL after its previous value, and every accepted
\* recognition attempt starts at least OCR_INTERVAL after the previous one
\* (so lastOcrTime never decreases).
C1_GateSpacing ==
    [][(lastOcrTime' # lastOcrTime \/ ev'.op = "RecognitionRan")
          => /\ lastOcrTime' = now'
             /\ lastOcrTime' >= lastOcrTime + OCR_INTERVAL]_vars

C1_Witness ==
    /\ ev.op = "RecognitionRan"
    /\ lastOcrTime >= 2 * OCR_INTERVAL
    /\ lastOcrTime = now

\* C2: at most one worker.recognize call is in flight.
C2_NoOverlap == inflight <= 1

\* C3: when a recognition completes, currentEntry is replaced and the table
\* updated exactly when the text resolves to an entry whose Number differs
\* from the held entry's (or none is held); otherwise neither changes and
\* nothing is emitted; an emission never repeats the Number shown before it.
C3_Debounce ==
    [][ev'.op \in OcrDoneOps =>
          LET m == Resolve(ev'.text, hotwheelsData)
              differs == /\ m # Null
                         /\ \/ currentEntry = Null
                            \/ m[1].Number # currentEntry[1].Number
          IN /\ differs => /\ currentEntry' = m
                           /\ table' = m
                           /\ ev'.op = "OcrUpdated"
             /\ ~differs => /\ currentEntry' = currentEntry
                            /\ table' = table
                            /\ ev'.op # "OcrUpdated"
             /\ (ev'.op = "OcrUpdated" /\ table # Null)
                    => table'[1].Number # table[1].Number]_vars

C3_Witness ==
    /\ ev.op = "OcrNoChange"
    /\ currentEntry # Null
    /\ Resolve(ev.text, hotwheelsData) # Null
    /\ table = currentEntry

\* C4: a rejected worker.recognize leaves currentEntry, the table and
\* lastOcrTime as they were and leaves the render loop where it was, still
\* running.
C4_FailureIsolated ==
    [][ev'.op = "OcrFailed" =>
          /\ UNCHANGED <<currentEntry, table, lastOcrTime, loopPc, capture>>
          /\ loopPc' \in LoopRunning]_vars

C4_Witness ==
    /\ ev.op = "OcrFailed"
    /\ currentEntry # Null
    /\ loopPc = "grabFrame"
    /\ lastOcrTime > 0

\* C5: once currentEntry is set, no step makes it null again; it stays an
\* entry of the catalog.
C5_EntryNeverCleared ==
    [][currentEntry # Null =>
          /\ currentEntry' # Null
          /\ currentEntry'[1] \in EntriesOf(hotwheelsData)]_vars

C5_Witness ==
    /\ currentEntry # Null
    /\ ev.op = "OcrRejected"
    /\ capture = Null

\* C8: when a grabbed frame has been displayed, a recognition attempt is
\* started if and only if now - lastOcrTime >= OCR_INTERVAL, and lastOcrTime
\* becomes now in that same step; otherwise no attempt is started and
\* lastOcrTime, currentEntry and the calls in flight are unchanged.
C8_ThrottleDecision ==
    [][/\ ~shouldRun(1000, 300)
       /\ shouldRun(1050, 300)
       /\ ev'.op \in FrameOps =>
             IF now - lastOcrTime >= OCR_INTERVAL
             THEN /\ ev'.op = "RecognitionRan"
                  /\ inflight' = inflight + 1
                  /\ lastOcrTime' = now
             ELSE /\ ev'.op = "RecognitionGated"
                  /\ UNCHANGED <<lastOcrTime, currentEntry, inflight>>]_vars

C8_Witness ==
    /\ ev.op = "RecognitionGated"
    /\ lastOcrTime > 0
    /\ now - lastOcrTime > 0
    /\ inflight > 0

(***************************************************************************)
(* The completion handler on its own: one recognition is in flight in a    *)
(* running page, over a wider range of catalogs, held entries and texts.   *)
(***************************************************************************)
MaxTail == 3

EA2 == Entry(<<"A","B","1">>, "a2")
EE == Entry(<<>>, "e")

MatchCatalogs ==
    { <<>>, <<EA, EB, EX>>, <<EB, EA>>, <<EA, EA2>>, <<EX, EE, EA>> }

RECURSIVE Rep(_, _)
Rep(c, n) == IF n = 0 THEN <<>> ELSE <<c>> \o Rep(c, n - 1)

Tails == { Rep("Z", n) : n \in 0..MaxTail }
FirstSegs ==
    { h \o t : h \in { <<>>, <<"A","B","1">>, <<"A","B","1","2">>,
                       <<"X","Y","9">>, <<"a","b","1">> },
               t \in Tails }
SecondSegs ==
    { h \o t : h \in { <<>>, <<"7","7","7">>, <<"x","7","7">> }, t \in Tails }
Seps == { <<>>, <<"-">>, <<"-","-">> }
LeadPads == { <<>>, <<" ">> }
TrailPads == { <<>>, <<"\n">> }

MatchTexts ==
    { l \o a \o m \o b \o r :
        l \in LeadPads, a \in FirstSegs, m \in Seps, b \in SecondSegs,
        r \in TrailPads }
    \cup { <<"A","B","1","-","7","7","7","-","7","7","7">>,
           <<"A","B"," ","1","-","7","7","7">>,
           <<"A","B","1","-","7","7","7",".">>,
           <<"A","B","1","2","-","X","Y","9","9">>,
           <<"a","b","1","2","-","x","y","9","9">>,
           <<"A","1","-","B","2">> }

RunningPage ==
    /\ now = OCR_INTERVAL
    /\ pc = "running"
    /\ options = <<"cam1", "cam2">>
    /\ selectValue = "cam1"
    /\ capture = Some(1)
    /\ liveTracks = {1}
    /\ opened = 1
    /\ pendingInit = 0
    /\ worker = Some("worker")
    /\ guide = "none"
    /\ drawn = Null
    /\ tesseractCanvas = DefaultCanvas
    /\ ocrDrawn = Null

InitMatch ==
    /\ RunningPage
    /\ canvas = HtmlCanvas
    /\ hotwheelsData \in MatchCatalogs
    /\ currentEntry \in {Null} \cup { Some(e) : e \in EntriesOf(hotwheelsData) }
    /\ table = currentEntry
    /\ lastOcrTime = OCR_INTERVAL
    /\ inflight = 1
    /\ loopPc = "requestAnimationFrame"
    /\ ev = Event("RecognitionRan")

NextMatch == \E t \in MatchTexts : OcrResolved(t)

SpecMatch == InitMatch /\ [][NextMatch]_vars

\* q is a leading part of p
IsPrefix(q, p) == Len(q) <= Len(p) /\ \A k \in 1..Len(q) : p[k] = q[k]

\* the part of a text before its first hyphen
BeforeHyphen(t) ==
    LET h == CHOOSE i \in 1..Len(t) :
                 t[i] = "-" /\ \A j \in 1..(i - 1) : t[j] # "-"
    IN SubSeq(t, 1, h - 1)

\* C6: for a structurally valid text the entry looked up is the first entry,
\* in load order, whose Number is a leading part of the text before the
\* hyphen, and none exactly when no entry has such a Number: with no entry
\* held it becomes currentEntry, and a held entry is replaced by no other.
C6_FirstPrefixMatch ==
    [][(ev'.op \in OcrDoneOps /\ CODE_REGEX(Trim(ev'.text))) =>
          LET p == BeforeHyphen(Trim(ev'.text))
              hits == { i \in 1..Len(hotwheelsData) :
                          IsPrefix(hotwheelsData[i].Number, p) }
          IN IF hits = {}
             THEN currentEntry' = currentEntry
             ELSE LET first == CHOOSE i \in hits : \A j \in hits : i <= j
                  IN /\ currentEntry' \in
                            {currentEntry, Some(hotwheelsData[first])}
                     /\ currentEntry = Null
                            => currentEntry' = Some(hotwheelsData[first])]_vars

C6_Witness ==
    /\ ev.op = "OcrUpdated"
    /\ hotwheelsData = <<EA, EB, EX>>
    /\ IsPrefix(EA.Number, Trim(ev.text))
    /\ IsPrefix(EB.Number, Trim(ev.text))
    /\ currentEntry = Some(EA)

IsCode(s) == Len(s) \in MinSeg..MaxSeg /\ \A k \in 1..Len(s) : s[k] \in CodeChar

\* white space, 3-5 code characters, a hyphen, 3-5 code characters, white
\* space
WellFormed(raw) ==
    \E a \in 0..Len(raw), h \in 1..Len(raw), b \in 0..Len(raw) :
        /\ a < h /\ h <= b
        /\ \A k \in 1..a : raw[k] \in WhiteSpace
        /\ \A k \in (b + 1)..Len(raw) : raw[k] \in WhiteSpace
        /\ raw[h] = "-"
        /\ IsCode(SubSeq(raw, a + 1, h - 1))
        /\ IsCode(SubSeq(raw, h + 1, b))

\* C7: a recognized text goes to the catalog lookup exactly when, trimmed, it
\* is 3-5 characters of [A-Z0-9], a hyphen and 3-5 characters of [A-Z0-9];
\* any other text is rejected and changes nothing.
C7_StructuralValidation ==
    [][ev'.op \in OcrDoneOps =>
          IF WellFormed(ev'.text)
          THEN ev'.op # "OcrRejected"
          ELSE /\ ev'.op = "OcrRejected"
               /\ UNCHANGED <<currentEntry, table, lastOcrTime, hotwheelsData,
                              loopPc, capture, canvasVars>>]_vars

C7_Witness ==
    /\ ev.op = "OcrRejected"
    /\ ev.text = <<"a","b","1","2","-","x","y","9","9">>
    /\ currentEntry # Null

(***************************************************************************)
(* The frame handler on its own: a frame is being grabbed in a running     *)
(* page whose throttle is open, over a range of canvas and frame sizes.    *)
(***************************************************************************)
MaxDim == 4

GeomDims == (1..MaxDim) \cup {40, 100, 200}
GeomSizes == GeomDims \X GeomDims

InitGeom ==
    /\ RunningPage
    /\ canvas \in GeomSizes
    /\ hotwheelsData = <<EA, EB, EX>>
    /\ currentEntry = Null
    /\ table = Null
    /\ lastOcrTime = 0
    /\ inflight = 0
    /\ loopPc = "grabFrame"
    /\ ev = Event("LoopGrabFrame")

NextGeom == \E f \in GeomSizes : FrameGrabbed(f)

SpecGeom == InitGeom /\ [][NextGeom]_vars

\* C9: the rectangle computeCoverCrop returns lies inside the source frame
\* and has the aspect ratio of the destination: 0 <= sx, 0 <= sy,
\* sx + sw <= srcW, sy + sh <= srcH and sw * dstH = sh * dstW.
C9_CoverCropInSource ==
    drawn # Null =>
        LET r == drawn[1].crop IN
        /\ LessEq(Num(0), r.sx)
        /\ LessEq(Num(0), r.sy)
        /\ LessEq(Add(r.sx, r.sw), Num(drawn[1].width))
        /\ LessEq(Add(r.sy, r.sh), Num(drawn[1].height))
        /\ Mul(r.sw, Num(canvas[2])) = Mul(r.sh, Num(canvas[1]))

C9_Witness ==
    /\ drawn # Null
    /\ Less(Num(0), drawn[1].crop.sx)
    /\ drawn[1].crop.sx[2] # 1

\* C10: a source wider than the destination keeps its full height and is
\* cropped to srcH * dstW / dstH, centred horizontally; otherwise it keeps
\* its full width and is cropped to srcW * dstH / dstW, centred vertically;
\* with equal ratios the result is the whole frame; (100,100,200,100) gives
\* {0,25,100,50} and (200,100,100,100) gives {50,0,100,100}.
C10_CoverCropBranches ==
    drawn # Null =>
        LET r == drawn[1].crop
            srcW == drawn[1].width
            srcH == drawn[1].height
            dstW == canvas[1]
            dstH == canvas[2]
        IN /\ srcW * dstH > dstW * srcH =>
                 r = [sx |-> Norm(srcW * dstH - srcH * dstW, 2 * dstH),
                      sy |-> <<0, 1>>,
                      sw |-> Norm(srcH * dstW, dstH),
                      sh |-> <<srcH, 1>>]
           /\ srcW * dstH <= dstW * srcH =>
                 r = [sx |-> <<0, 1>>,
                      sy |-> Norm(srcH * dstW - srcW * dstH, 2 * dstW),
                      sw |-> <<srcW, 1>>,
                      sh |-> Norm(srcW * dstH, dstW)]
           /\ srcW * dstH = dstW * srcH =>
                 r = [sx |-> <<0, 1>>, sy |-> <<0, 1>>,
                      sw |-> <<srcW, 1>>, sh |-> <<srcH, 1>>]
           /\ (srcW = 100 /\ srcH = 100 /\ dstW = 200 /\ dstH = 100) =>
                 r = [sx |-> <<0, 1>>, sy |-> <<25, 1>>,
                      sw |-> <<100, 1>>, sh |-> <<50, 1>>]
           /\ (srcW = 200 /\ srcH = 100 /\ dstW = 100 /\ dstH = 100) =>
                 r = [sx |-> <<50, 1>>, sy |-> <<0, 1>>,
                      sw |-> <<100, 1>>, sh |-> <<100, 1>>]

C10_Witness ==
    /\ drawn # Null
    /\ drawn[1].width = 100 /\ drawn[1].height = 100
    /\ canvas = <<200, 100>>
    /\ drawn[1].crop.sy = <<25, 1>>

\* C11: the rectangle computeOCRCrop returns lies inside the source frame
\* (0 <= sx, 0 <= sy, sx + sw <= frame.width, sy + sh <= frame.height) and
\* inside the display cover crop, for every positive frame and canvas size.
C11_OCRCropInSource ==
    ocrDrawn # Null =>
        LET r == ocrDrawn[1]
            d == drawn[1].crop
        IN /\ LessEq(Num(0), r.sx)
           /\ LessEq(Num(0), r.sy)
           /\ LessEq(Add(r.sx, r.sw), Num(drawn[1].width))
           /\ LessEq(Add(r.sy, r.sh), Num(drawn[1].height))
           /\ LessEq(d.sx, r.sx)
           /\ LessEq(d.sy, r.sy)
           /\ LessEq(Add(r.sx, r.sw), Add(d.sx, d.sw))
           /\ LessEq(Add(r.sy, r.sh), Add(d.sy, d.sh))

\* the same for canvases that hold the whole guide box
C11_HoldsForLargeCanvas ==
    (canvas[1] >= GUIDE_WIDTH /\ canvas[2] >= GUIDE_HEIGHT) => C11_OCRCropInSource

(***************************************************************************)
(* Properties of the render loop                                           *)
(***************************************************************************)
\* the render loop can take a step: its next frame request fires, or the
\* awaited grabFrame settles (FrameGrabbed has the guard of FrameFailed)
LoopCanStep == ENABLED (LoopNoCapture \/ LoopGrabFrame \/ FrameFailed)

\* C12: a cycle whose grabFrame fails displays nothing, starts no
\* recognition and leaves lastOcrTime and currentEntry alone, and the next
\* cycle is requested: the loop can take its next step.
C12_FrameFailureSkipsCycle ==
    [][/\ ev'.op = "FrameFailed" =>
             /\ UNCHANGED <<drawn, guide, tesseractCanvas, ocrDrawn, inflight,
                            lastOcrTime, currentEntry, table>>
             /\ loopPc' = "requestAnimationFrame"
       /\ ev.op = "FrameFailed" => LoopCanStep]_vars

C12_Witness ==
    /\ ev.op = "FrameFailed"
    /\ loopPc = "requestAnimationFrame"
    /\ drawn # Null
    /\ lastOcrTime > 0
    /\ currentEntry # Null

\* C13: while a recognition is pending the render loop can always take its
\* next step, and the cycle that started a recognition has ended, with the
\* next frame requested, while that recognition is still pending.
C13_RecognitionDoesNotBlock ==
    /\ (pc = "running" /\ inflight > 0) =>
           (loopPc \in LoopRunning /\ LoopCanStep)
    /\ ev.op = "RecognitionRan" =>
           (loopPc = "requestAnimationFrame" /\ inflight > 0)

C13_Witness ==
    /\ ev.op = "RecognitionRan"
    /\ inflight = 2
    /\ drawn # Null

\* C14: the helper box is drawn lime exactly when currentEntry is set at the
\* draw and yellow otherwise; currentEntry starts absent and is first set
\* by the completion of a recognition whose text is well formed and has a
\* catalog entry whose Number begins the text.
C14_GuideBoxState ==
    /\ currentEntry = Null
    /\ [][/\ ev'.op \in FrameOps =>
                guide' = IF currentEntry # Null THEN "lime" ELSE "yellow"
          /\ ev'.op \notin FrameOps => guide' = guide
          /\ (currentEntry = Null /\ currentEntry' # Null) =>
                /\ ev'.op = "OcrUpdated"
                /\ WellFormed(ev'.text)
                /\ \E i \in 1..Len(hotwheelsData) :
                      /\ IsPrefix(hotwheelsData[i].Number, Trim(ev'.text))
                      /\ currentEntry' = Some(hotwheelsData[i])]_vars

C14_Witness ==
    /\ ev.op \in FrameOps
    /\ guide = "lime"
    /\ currentEntry # Null

\* C16: a grabbed frame is displayed and the throttle consulted in the step
\* that ends the cycle; a recognition attempt is started only in such a
\* step, at most one per cycle; and a new cycle begins only when the
\* previous one has requested the next frame.
C16_CycleOrdering ==
    [][/\ ev'.op \in FrameOps =>
             /\ loopPc = "grabFrame"
             /\ loopPc' = "requestAnimationFrame"
             /\ drawn' # Null
             /\ inflight' \in {inflight, inflight + 1}
       /\ (inflight' > inflight \/ lastOcrTime' # lastOcrTime) =>
             ev'.op \in FrameOps
       /\ ev'.op \in {"LoopGrabFrame", "LoopNoCapture"} =>
             loopPc = "requestAnimationFrame"
       /\ ev'.op = "LoopGrabFrame" => loopPc' = "grabFrame"
       /\ ev'.op = "FrameFailed" => loopPc = "grabFrame"]_vars

C16_Witness ==
    /\ ev.op = "LoopGrabFrame"
    /\ drawn # Null
    /\ inflight > 0
    /\ lastOcrTime = now

\* C19: the two scale factors of computeOCRCrop are equal, so the OCR crop
\* has the proportions of the guide box, sw : sh = GUIDE_WIDTH :
\* GUIDE_HEIGHT, whatever the proportions of the frame and of the canvas.
C19_UndistortedOCRCrop ==
    ocrDrawn # Null =>
        LET r == ocrDrawn[1]
            scaleX == Div(r.sw, Num(GUIDE_WIDTH))
            scaleY == Div(r.sh, Num(GUIDE_HEIGHT))
        IN /\ scaleX = scaleY
           /\ scaleX = Div(drawn[1].crop.sw, Num(canvas[1]))
           /\ scaleY = Div(drawn[1].crop.sh, Num(canvas[2]))
           /\ r.sw[1] * r.sh[2] * GUIDE_HEIGHT = r.sh[1] * r.sw[2] * GUIDE_WIDTH

C19_Witness ==
    /\ ocrDrawn # Null
    /\ drawn[1].width * canvas[2] # drawn[1].height * canvas[1]
    /\ drawn[1].width # drawn[1].height
    /\ canvas[1] # canvas[2]
    /\ ocrDrawn[1].sw[2] # 1

(***************************************************************************)
(* Properties of the camera handle                                         *)
(***************************************************************************)
\* C17: every camera track that was opened and is not the one held in
\* capture has been stopped, so at most one track is live.
C17_NoLeakedTrack ==
    /\ liveTracks \subseteq { capture[i] : i \in 1..Len(capture) }
    /\ Cardinality(liveTracks) <= 1

(***************************************************************************)
(* The frame handler on a canvas with a zero width or height               *)
(***************************************************************************)
ZeroSizes ==
    { s \in (GeomDims \cup {0}) \X (GeomDims \cup {0}) : s[1] = 0 \/ s[2] = 0 }

InitZero ==
    /\ RunningPage
    /\ canvas \in ZeroSizes
    /\ hotwheelsData = <<EA, EB, EX>>
    /\ currentEntry = Null
    /\ table = Null
    /\ lastOcrTime = 0
    /\ inflight = 0
    /\ loopPc = "grabFrame"
    /\ ev = Event("LoopGrabFrame")

SpecZero == InitZero /\ [][NextGeom]_vars

\* C15: computeCoverCrop and computeOCRCrop called with a zero width or
\* height fail with InvalidDimension and return no rectangle, so nothing is
\* handed to drawImage on either canvas.
C15_InvalidDimensionFails ==
    (canvas[1] = 0 \/ canvas[2] = 0) => (drawn = Null /\ ocrDrawn = Null)

(***************************************************************************)
(* Liveness of the throttle.  The clock of performance.now() advances and  *)
(* the callbacks of requestAnimationFrame are called (lines 132, 141);     *)
(* whether grabFrame succeeds is left to the camera.                       *)
(***************************************************************************)
SpecLive ==
    /\ Init
    /\ [][Next]_vars
    /\ WF_vars(Tick)
    /\ WF_vars(LoopNoCapture \/ LoopGrabFrame)

FramesKeepArriving == []<><<\E f \in CameraFrames : FrameGrabbed(f)>>_vars

IntervalElapsed == now - lastOcrTime >= OCR_INTERVAL

\* C18: if frames keep being acquired, then whenever OCR_INTERVAL has
\* elapsed since lastOcrTime (from the initial lastOcrTime = 0 and after
\* every accepted attempt alike) a recognition attempt is eventually
\* started, whatever became of the earlier recognitions.
C18_ThrottleNeverBlocks ==
    FramesKeepArriving =>
        (IntervalElapsed ~> (ev.op = "RecognitionRan" /\ lastOcrTime = now))

C18_Witness ==
    /\ ev.op = "RecognitionRan"
    /\ lastOcrTime >= 2 * OCR_INTERVAL
    /\ inflight >= 2
    /\ currentEntry # Null

====
